---------------------------- MODULE Spec2Model ----------------------------
(***************************************************************************)
(* Model of the two request pipelines of the repository:                   *)
(*   - the fashion POST handler (src/app/api/fashion/route.ts), and        *)
(*   - ReceiptProcessor.processReceipt / saveReceipt / deleteImage         *)
(*     (src/unnamed/part_002).                                             *)
(* Each pipeline has its own specification (FashionSpec, ReceiptSpec); the *)
(* variables of the pipeline that is not running stay at their initial     *)
(* values.                                                                 *)
(***************************************************************************)
EXTENDS Integers, Sequences, FiniteSets, TLC

VARIABLES
  \* ---- fashion POST handler ----
  fpc,            \* position of the handler
  form,           \* the parsed form data (imageFile / textPrompt present?)
  elapsed,        \* Date.now() - requestStartTime, in ms
  modelOut,       \* what the analysis model's text sanitizes/parses to
  outfits,        \* jsonResponse.outfits
  loopIdx,        \* i of the image loop
  analysisCalls,  \* calls of generateContent
  imageCalls,     \* calls of chatSession.sendMessage
  response,       \* the NextResponse returned
  \* ---- receipt pipeline ----
  rpc,            \* position of processReceipt
  imageUrl,       \* the imageUrl argument
  imageData,      \* the imageData argument (base64 data or an https URL)
  finalImageUrl,  \* local variable finalImageUrl
  user,           \* result of supabase.auth.getUser() inside processReceipt
  signal,         \* the AbortSignal argument: "none", "live" or "aborted"
  listener,       \* is abortHandler registered on the signal
  parsedData,     \* JSON.parse result (isReceipt, reason)
  extracted,      \* the receipt data as parsed (never mutated; for reference)
  receiptData,    \* the receipt data, mutated in place by the pipeline
  convertCalls,   \* calls of currencyConverter.convert
  lookupFailed,   \* a rate lookup of the conversion pass has failed
  extractCalls,   \* calls of model.generateContent for extraction
  taxCalls,       \* calls of model.generateContent for tax classification
  uploads,        \* objects uploaded to storage by this call
  blobs,          \* objects currently in the temp storage
  deleteLog,      \* sequence of deleteImage invocations: [url, outcome]
  error,          \* the error thrown to the caller (or NoError)
  pendingError,   \* the error caught by the catch block
  record,         \* the ReceiptData returned to the caller (or NoRecord)
  table,          \* rows of the receipts table
  taxAnswer,      \* how the tax-classification model call went
  saveUser,       \* result of supabase.auth.getUser() inside saveReceipt
  dbOps,          \* operations saveReceipt issued on the receipts table
  \* ---- normalizeOriginalCurrency applied to one input ----
  npc,            \* "idle", "call" (about to be applied) or "returned"
  currencyArg,    \* the currency argument
  normalized,     \* the value returned
  \* ---- the sanitize-and-parse step applied to one model output ----
  ppc,            \* "idle", "match" (about to be applied) or "parsed"
  text,           \* response.text() of the extraction model
  parseResult,    \* the outcome of the step: the object parsed, or the error
  \* ---- a fashion sanitizer applied to one model output ----
  spc,            \* "idle", "raw" (about to be applied) or "sanitized"
  sanPath,        \* the path of the handler: "image" or "text"
  rawText,        \* the text of the analysis model
  sanitizedText,  \* the text handed to JSON.parse
  \* ---- the page's handleSubmit ----
  hpc,            \* position of handleSubmit
  file,           \* is an image file selected
  textPrompt,     \* is a text description entered
  isLoading,      \* state isLoading
  loadingStage,   \* state loadingStage
  loadingTimer,   \* the interval of handleSubmit: "none", "active", "cleared"
  loadingMessageIndex, \* the local loadingMessageIndex
  result,         \* state result: "null", "data" or "parsed"
  pageError,      \* state error: "null" or the message shown
  showForm,       \* state showForm
  \* ---- the CameraView component ----
  cmounted,       \* is the component mounted
  stream,         \* state stream: 0 (null) or the stream set by setStream
  facingMode,     \* state facingMode
  effects,        \* the runs of the effect, in order
  stopped,        \* the streams whose tracks were stopped
  cameraError     \* state error is set

fvars == <<fpc, form, elapsed, modelOut, outfits, loopIdx, analysisCalls,
           imageCalls, response>>

rvars == <<rpc, imageUrl, imageData, finalImageUrl, user, signal,
           listener, parsedData, extracted, receiptData, convertCalls,
           lookupFailed, extractCalls, taxCalls, uploads, blobs, deleteLog, error,
           pendingError, record, table, taxAnswer, saveUser, dbOps>>

\* the variables of the two pure functions checked on their own
pvars == <<npc, currencyArg, normalized, ppc, text, parseResult>>

\* the variables of a fashion sanitizer checked on its own
svars == <<spc, sanPath, rawText, sanitizedText>>

\* the variables of the page
hvars == <<hpc, file, textPrompt, isLoading, loadingStage, loadingTimer,
           loadingMessageIndex, result, pageError, showForm>>

\* the variables of the camera component
cvars == <<cmounted, stream, facingMode, effects, stopped, cameraError>>

\* the variables of the client side and of the fashion sanitizers
ovars == <<svars, hvars, cvars>>

vars == <<fvars, rvars, pvars, ovars>>

(***************************************************************************)
(* Bounds of the model                                                     *)
(***************************************************************************)
MaxOutfits == 3
MaxItems == 1
MaxDiscounts == 1

(***************************************************************************)
(*                      FASHION POST HANDLER                               *)
(***************************************************************************)
TIMEOUT_DURATION == 60000

PLACEHOLDER == "/placeholder-outfit.png"

NoResponse == [kind |-> "none", status |-> 0]

\* NextResponse.json(body, {status}); the status defaults to 200
NextResponseJson(kind, status) == [kind |-> kind, status |-> status]

\* Times the awaited analysis call may take (ms)
Delays == {1000, (TIMEOUT_DURATION * 6) \div 10, (TIMEOUT_DURATION * 6) \div 10 + 1}

\* outfit.generatedImage of an outfit the image loop has not written
NoImage == <<"", 0>>

\* An outfit as far as the image loop reads it
OutfitIn == [outfitPrompt : BOOLEAN,   \* outfit.outfitPrompt is truthy
             pieces : BOOLEAN]          \* outfit.pieces / outfit.occasions are arrays

NewOutfit(o) == [outfitPrompt |-> o.outfitPrompt, pieces |-> o.pieces,
                 generatedImage |-> NoImage, call |-> "none"]

OutfitLists == UNION {[1..n -> OutfitIn] : n \in 0..MaxOutfits}

\* What the text of the analysis model turns out to be
ModelOutputs ==
  {[got |-> TRUE, brace |-> FALSE, parses |-> FALSE, itemType |-> FALSE,
    stylingTips |-> FALSE, itemDescription |-> FALSE, outfits |-> <<>>],
   [got |-> TRUE, brace |-> TRUE, parses |-> FALSE, itemType |-> FALSE,
    stylingTips |-> FALSE, itemDescription |-> FALSE, outfits |-> <<>>]}
  \cup
  {[got |-> TRUE, brace |-> TRUE, parses |-> TRUE, itemType |-> it,
    stylingTips |-> st, itemDescription |-> d, outfits |-> os] :
      it \in BOOLEAN, st \in BOOLEAN, d \in BOOLEAN, os \in OutfitLists}

\* no text has been received from the analysis model
NoModelOut == [got |-> FALSE, brace |-> FALSE, parses |-> FALSE, itemType |-> FALSE,
               stylingTips |-> FALSE, itemDescription |-> FALSE, outfits |-> <<>>]

\* the validation without the check of stylingTips
ValidStructure_m(j) ==
  j.itemType /\ Len(j.outfits) > 0 /\ j.itemDescription

\* route.ts:185 / 313: the structural validation of jsonResponse
ValidStructure(j) ==
  j.itemType /\ Len(j.outfits) > 0 /\ j.stylingTips /\ j.itemDescription

FashionInit ==
  /\ fpc = "start"
  /\ form = [ok |-> FALSE, imageFile |-> FALSE, textPrompt |-> FALSE]
  /\ elapsed = 0
  /\ modelOut = NoModelOut
  /\ outfits = <<>>
  /\ loopIdx = 0
  /\ analysisCalls = 0
  /\ imageCalls = 0
  /\ response = NoResponse
  \* the receipt pipeline is not running
  /\ rpc = "idle" /\ imageUrl = "" /\ imageData = "base64" /\ signal = "none"
  /\ finalImageUrl = "" /\ user = "none" /\ listener = FALSE
  /\ parsedData = <<>> /\ extracted = <<>> /\ receiptData = <<>>
  /\ convertCalls = 0 /\ lookupFailed = FALSE /\ extractCalls = 0 /\ taxCalls = 0
  /\ uploads = {} /\ blobs = {} /\ deleteLog = <<>> /\ error = <<>>
  /\ pendingError = <<>> /\ record = <<>> /\ table = <<>>
  /\ taxAnswer = "none" /\ saveUser = "unset" /\ dbOps = <<>>
  \* no pure function is being applied
  /\ npc = "idle" /\ currencyArg = <<>> /\ normalized = <<>>
  /\ ppc = "idle" /\ text = <<>> /\ parseResult = <<>>
  \* no fashion sanitizer is being applied
  /\ spc = "idle" /\ sanPath = "none" /\ rawText = <<>> /\ sanitizedText = <<>>
  \* the page is not submitting
  /\ hpc = "idle" /\ file = FALSE /\ textPrompt = FALSE /\ isLoading = FALSE
  /\ loadingStage = "" /\ loadingTimer = "none" /\ loadingMessageIndex = 0
  /\ result = "null" /\ pageError = "null" /\ showForm = TRUE
  \* the camera is not shown
  /\ cmounted = FALSE /\ stream = 0 /\ facingMode = "environment"
  /\ effects = <<>> /\ stopped = {} /\ cameraError = FALSE

\* the check of the form data removed
MissingInput_m(f) == FALSE

\* route.ts:120: neither an image nor a (non-empty) prompt
MissingInput(f) == ~f.imageFile /\ ~f.textPrompt

\* route.ts:102-125: read the form data, reject a request with no input
ParseForm ==
  /\ fpc = "start"
  /\ \E ok \in BOOLEAN, img \in BOOLEAN, txt \in BOOLEAN :
       /\ form' = [ok |-> ok, imageFile |-> img, textPrompt |-> txt]
       /\ IF ~ok
            THEN /\ response' = NextResponseJson("error", 500)
                 /\ fpc' = "done"
            ELSE IF MissingInput(form')
              THEN /\ response' = NextResponseJson("error", 400)
                   /\ fpc' = "done"
              ELSE /\ response' = response
                   /\ fpc' = "analysis"
  /\ UNCHANGED <<elapsed, modelOut, outfits, loopIdx, analysisCalls, imageCalls>>
  /\ UNCHANGED <<rvars, pvars, ovars>>

\* route.ts:151-164 / 285-301: the single call of the analysis model;
\* 423-424 when neither branch is taken
AnalysisCall ==
  /\ fpc = "analysis"
  /\ IF ~form.imageFile /\ ~form.textPrompt
       THEN /\ response' = NextResponseJson("error", 500)
            /\ fpc' = "done"
            /\ UNCHANGED <<analysisCalls, elapsed, modelOut>>
       ELSE /\ analysisCalls' = analysisCalls + 1
            /\ \E d \in Delays : elapsed' = elapsed + d
            /\ \/ /\ response' = NextResponseJson("error", 500)  \* the call throws
                  /\ fpc' = "done"
                  /\ UNCHANGED modelOut
               \/ /\ \E m \in ModelOutputs : modelOut' = m
                  /\ fpc' = "sanitize"
                  /\ UNCHANGED response
  /\ UNCHANGED <<form, outfits, loopIdx, imageCalls>>
  /\ UNCHANGED <<rvars, pvars, ovars>>

\* route.ts:165-187 (image path) and 302-320 (text path)
SanitizeAndParse ==
  /\ fpc = "sanitize"
  /\ IF form.imageFile /\ ~modelOut.brace
       THEN \* 176-178: thrown outside the inner try, caught at 425
            /\ response' = NextResponseJson("error", 500)
            /\ fpc' = "done"
            /\ UNCHANGED outfits
       ELSE IF ~modelOut.parses \/ ~ValidStructure(modelOut)
         THEN \* 279-284 / 415-420: the inner catch answers the raw text
              /\ response' = NextResponseJson("rawResponse", 200)
              /\ fpc' = "done"
              /\ UNCHANGED outfits
         ELSE /\ outfits' = [i \in 1..Len(modelOut.outfits) |->
                               NewOutfit(modelOut.outfits[i])]
              /\ fpc' = "gate"
              /\ UNCHANGED response
  /\ UNCHANGED <<form, elapsed, modelOut, loopIdx, analysisCalls, imageCalls>>
  /\ UNCHANGED <<rvars, pvars, ovars>>

\* route.ts:192-195 / 328-331: skip the image stage when close to the timeout
OverBudget(e) == e * 10 > TIMEOUT_DURATION * 6

TimeGate ==
  /\ fpc = "gate"
  /\ IF OverBudget(elapsed)
       THEN /\ response' = NextResponseJson("result", 200)
            /\ fpc' = "done"
            /\ UNCHANGED loopIdx
       ELSE /\ loopIdx' = 1
            /\ fpc' = "loop"
            /\ UNCHANGED response
  /\ UNCHANGED <<form, elapsed, modelOut, outfits, analysisCalls, imageCalls>>
  /\ UNCHANGED <<rvars, pvars, ovars>>

\* route.ts:263-265: the image reference stored after a call that returned
ImageOf(i, outcome) ==
  IF outcome = "image" THEN <<"data:image/png;base64", i>> ELSE <<PLACEHOLDER, 0>>

\* a call that threw leaves the outfit without an image reference
ImageOnError_m(i) == NoImage

\* route.ts:268-271: the image reference stored after a call that threw
ImageOnError(i) == <<PLACEHOLDER, 0>>

\* route.ts:225-272 / 361-408: one iteration of the image loop
ImageLoopStep ==
  /\ fpc = "loop"
  /\ loopIdx <= Len(outfits)
  /\ LET o == outfits[loopIdx] IN
       IF ~o.outfitPrompt /\ ~o.pieces
         THEN \* 232: outfit.pieces.join throws; caught at 273, then 278
              /\ response' = NextResponseJson("result", 200)
              /\ fpc' = "done"
              /\ UNCHANGED <<outfits, loopIdx, imageCalls>>
         ELSE /\ imageCalls' = imageCalls + 1
              /\ \E outcome \in {"threw", "image", "noimage"} :
                   outfits' = [outfits EXCEPT ![loopIdx] =
                     [o EXCEPT !.outfitPrompt = TRUE,
                               !.call = outcome,
                               !.generatedImage =
                                  IF outcome = "threw"
                                    THEN ImageOnError(loopIdx)
                                    ELSE ImageOf(loopIdx, outcome)]]
              /\ loopIdx' = loopIdx + 1
              /\ UNCHANGED <<response, fpc>>
  /\ UNCHANGED <<form, elapsed, modelOut, analysisCalls>>
  /\ UNCHANGED <<rvars, pvars, ovars>>

\* route.ts:278 / 414: the loop is over, answer the result
ImageLoopEnd ==
  /\ fpc = "loop"
  /\ loopIdx > Len(outfits)
  /\ response' = NextResponseJson("result", 200)
  /\ fpc' = "done"
  /\ UNCHANGED <<form, elapsed, modelOut, outfits, loopIdx, analysisCalls, imageCalls>>
  /\ UNCHANGED <<rvars, pvars, ovars>>

FashionNext ==
  \/ ParseForm
  \/ AnalysisCall
  \/ SanitizeAndParse
  \/ TimeGate
  \/ ImageLoopStep
  \/ ImageLoopEnd


(***************************************************************************)
(*                          RECEIPT PIPELINE                               *)
(***************************************************************************)

\* ---- JavaScript values as the pipeline sees them ----
Num(k) == [t |-> "num", n |-> k]       \* a number, in hundredths
NaN == [t |-> "nan", n |-> 0]
NonNumeric == [t |-> "str", n |-> 0]   \* a string that is not a number
Undefined == [t |-> "undef", n |-> 0]

\* Number(v)
ToNumber(v) == IF v.t = "num" THEN v ELSE NaN

\* truthiness of v
Truthy(v) == (v.t = "num" /\ v.n # 0) \/ v.t = "str"

\* v || 0
OrZero(v) == IF Truthy(v) THEN v ELSE Num(0)

\* ---- strings as sequences of characters; null ----
Null == [isNull |-> TRUE, s |-> <<>>]
Str(s) == [isNull |-> FALSE, s |-> s]

\* a string is truthy when it is neither null nor empty
TruthyStr(c) == ~c.isNull /\ c.s # <<>>

\* String.prototype.toUpperCase on the characters the model uses
UpperChar(c) ==
  CASE c = "u" -> "U" [] c = "s" -> "S" [] c = "d" -> "D" [] c = "r" -> "R"
    [] c = "m" -> "M" [] c = "p" -> "P" [] c = "x" -> "X" [] c = "k" -> "K"
    [] OTHER -> c

toUpperCase(s) == [i \in 1..Len(s) |-> UpperChar(s[i])]

RECURSIVE trimStart(_)
trimStart(s) == IF s # <<>> /\ Head(s) = " " THEN trimStart(Tail(s)) ELSE s

RECURSIVE trimEnd(_)
trimEnd(s) ==
  IF s # <<>> /\ s[Len(s)] = " " THEN trimEnd(SubSeq(s, 1, Len(s) - 1)) ELSE s

trim(s) == trimEnd(trimStart(s))

\* String.prototype.includes
includes(s, sub) ==
  \E k \in 0..(Len(s) - Len(sub)) : SubSeq(s, k + 1, k + Len(sub)) = sub

\* part_002:1032-1036
isoCodes ==
  {<<"M","Y","R">>, <<"U","S","D">>, <<"G","B","P">>, <<"E","U","R">>,
   <<"J","P","Y">>, <<"C","N","Y">>, <<"S","G","D">>, <<"A","U","D">>,
   <<"C","A","D">>, <<"N","Z","D">>, <<"C","H","F">>, <<"H","K","D">>,
   <<"T","W","D">>, <<"K","R","W">>, <<"I","N","R">>, <<"T","H","B">>,
   <<"V","N","D">>, <<"I","D","R">>, <<"P","H","P">>, <<"M","M","K">>,
   <<"B","N","D">>}

\* part_002:1043-1062, in the order Object.entries enumerates it.  The
\* non-ASCII currency signs are written as one character each.
symbolMap ==
  << [symbol |-> <<"$">>, codes |-> << <<"U","S","D">>, <<"C","A","D">>,
                                       <<"A","U","D">>, <<"S","G","D">>,
                                       <<"H","K","D">> >>],
     [symbol |-> <<"<pound>">>, codes |-> << <<"G","B","P">> >>],
     [symbol |-> <<"<euro>">>, codes |-> << <<"E","U","R">> >>],
     [symbol |-> <<"<yen>">>, codes |-> << <<"J","P","Y">>, <<"C","N","Y">> >>],
     [symbol |-> <<"<rupee>">>, codes |-> << <<"I","N","R">> >>],
     [symbol |-> <<"<baht>">>, codes |-> << <<"T","H","B">> >>],
     [symbol |-> <<"R","M">>, codes |-> << <<"M","Y","R">> >>],
     [symbol |-> <<"S","$">>, codes |-> << <<"S","G","D">> >>],
     [symbol |-> <<"A","$">>, codes |-> << <<"A","U","D">> >>],
     [symbol |-> <<"C","$">>, codes |-> << <<"C","A","D">> >>],
     [symbol |-> <<"N","T","$">>, codes |-> << <<"T","W","D">> >>],
     [symbol |-> <<"H","K","$">>, codes |-> << <<"H","K","D">> >>],
     [symbol |-> <<"<won>">>, codes |-> << <<"K","R","W">> >>],
     [symbol |-> <<"<dong>">>, codes |-> << <<"V","N","D">> >>],
     [symbol |-> <<"R","p">>, codes |-> << <<"I","D","R">> >>],
     [symbol |-> <<"<peso>">>, codes |-> << <<"P","H","P">> >>],
     [symbol |-> <<"K">>, codes |-> << <<"M","M","K">> >>],
     [symbol |-> <<"B","$">>, codes |-> << <<"B","N","D">> >>] >>

\* an input that matches nothing is returned as it is, whatever its length
normalizeOriginalCurrency_m(currency) ==
  IF currency.isNull \/ currency.s = <<>> THEN Null
  ELSE LET cleanCurrency == toUpperCase(trim(currency.s))
           hits == {k \in 1..Len(symbolMap) :
                      includes(cleanCurrency, symbolMap[k].symbol)}
       IN IF cleanCurrency \in isoCodes THEN Str(cleanCurrency)
          ELSE IF hits # {}
            THEN LET first == CHOOSE k \in hits : \A j \in hits : k <= j
                 IN Str(symbolMap[first].codes[1])
            ELSE Str(cleanCurrency)

\* part_002:1025-1088.  The context argument is only logged.
normalizeOriginalCurrency(currency) ==
  IF currency.isNull \/ currency.s = <<>> THEN Null
  ELSE LET cleanCurrency == toUpperCase(trim(currency.s))
           hits == {k \in 1..Len(symbolMap) :
                      includes(cleanCurrency, symbolMap[k].symbol)}
       IN IF cleanCurrency \in isoCodes THEN Str(cleanCurrency)
          ELSE IF hits # {}
            THEN LET first == CHOOSE k \in hits : \A j \in hits : k <= j
                 IN Str(symbolMap[first].codes[1])
            ELSE IF Len(cleanCurrency) = 3 THEN Str(cleanCurrency) ELSE Null

\* ---- the currency converter (./currency-converter) ----
\* settlement units per 100 origin units
Rate == 450

\* currencyConverter.convert(amount, code) when the rate lookup succeeds:
\* amount * rate, rounded to 2 decimal places
convert(amount) ==
  IF amount.t = "num" THEN Num((amount.n * Rate + 50) \div 100) ELSE NaN


\* ---- what the extraction model's text parses to ----
ItemPrices == {Num(100), NonNumeric}
Subtotals == {Num(0), Num(300), NonNumeric}
Totals == {Undefined, Num(300), Num(-300)}
TaxAmounts == {Num(50)}
DiscountAmounts == {Num(20)}
OriginalCurrencies == {Null, Str(<<"u","s","d">>), Str(<<"$">>), Str(<<"x">>)}

SeqsUpTo(S, n) == UNION {[1..k -> S] : k \in 0..n}

Absent == [defined |-> FALSE, v |-> <<>>]
Present(v) == [defined |-> TRUE, v |-> v]

ReceiptInputs ==
  [storeName : BOOLEAN,      \* data.storeName is a non-empty string
   date : BOOLEAN,           \* data.date is a non-empty string
   items : {Absent} \cup {Present(l) : l \in SeqsUpTo(ItemPrices, MaxItems)},
   subtotal : Subtotals,
   tax : {Absent} \cup {Present(<<a>>) : a \in TaxAmounts},
   discounts : {Absent} \cup
               {Present(l) : l \in SeqsUpTo(DiscountAmounts, MaxDiscounts)},
   total : Totals,
   currencyConverted : BOOLEAN,
   originalCurrency : OriginalCurrencies]

NoReceipt ==
  [storeName |-> FALSE, date |-> FALSE, items |-> Absent, subtotal |-> Undefined,
   tax |-> Absent, discounts |-> Absent, total |-> Undefined,
   currencyConverted |-> FALSE, originalCurrency |-> Null]

\* parsedData.isReceipt is true, false or missing; parsedData.reason may be missing
Reasons == {"", "blurry photo"}
NoParsed == [isReceipt |-> "undefined", reason |-> ""]

NoError == [kind |-> "none", reason |-> ""]
Err(kind, reason) == [kind |-> kind, reason |-> reason]

NoRecord == [returned |-> FALSE]

\* ---- image references ----
\* "" is the empty string, "pre" a URL the caller passed as imageUrl, "tmp" the
\* public URL of the temporary upload, "bad" / "other" an imageData that starts
\* with https:// and is not a URL / is not a storage URL.
ImageDataKinds == {"base64", "bad", "other"}

\* part_002:970-992: what deleteImage does with the URL before calling storage
UrlClass(url) ==
  CASE url = "" -> "empty"
    [] url = "bad" -> "malformed"
    [] url = "other" -> "notStorage"
    [] OTHER -> "storage"

\* part_002:968-1022: the ways one invocation of deleteImage can go
DeleteOutcomes(url) ==
  CASE UrlClass(url) = "empty" -> {"skipped"}
    [] UrlClass(url) = "malformed" -> {"malformedUrl"}
    [] UrlClass(url) = "notStorage" -> {"notStorage"}
    [] OTHER -> {"removed", "notFound", "storageError", "rejected"}

\* the catch of deleteImage rethrows the storage error
deleteImageThrows_m(outcome) == outcome = "storageError"

\* part_002:1018-1021: the catch of deleteImage swallows every error
deleteImageThrows(outcome) == FALSE

\* the abort DOMException not counted as an Error
InstanceOfError_m(e) == e.kind \notin {"none", "AbortError"}

\* part_002:747: error instanceof Error (every error the pipeline raises is one)
InstanceOfError(e) == e.kind # "none"


ReceiptInit ==
  /\ rpc = "start"
  /\ imageUrl \in {"", "pre"}
  /\ imageData \in (IF imageUrl = "" THEN ImageDataKinds ELSE {"base64"})
  /\ signal \in {"none", "live", "aborted"}
  /\ finalImageUrl = ""
  /\ user = "none"
  /\ listener = FALSE
  /\ parsedData = NoParsed
  /\ extracted = NoReceipt
  /\ receiptData = NoReceipt
  /\ convertCalls = 0
  /\ lookupFailed = FALSE
  /\ extractCalls = 0
  /\ taxCalls = 0
  /\ uploads = {}
  /\ blobs = {}
  /\ deleteLog = <<>>
  /\ error = NoError
  /\ pendingError = NoError
  /\ record = NoRecord
  /\ table = <<>>
  /\ taxAnswer = "none"
  /\ saveUser = "unset"
  /\ dbOps = <<>>
  \* the fashion handler is not running
  /\ fpc = "idle"
  /\ form = [ok |-> FALSE, imageFile |-> FALSE, textPrompt |-> FALSE]
  /\ elapsed = 0 /\ modelOut = NoModelOut /\ outfits = <<>> /\ loopIdx = 0
  /\ analysisCalls = 0 /\ imageCalls = 0 /\ response = NoResponse
  \* no pure function is being applied
  /\ npc = "idle" /\ currencyArg = <<>> /\ normalized = <<>>
  /\ ppc = "idle" /\ text = <<>> /\ parseResult = <<>>
  \* no fashion sanitizer is being applied
  /\ spc = "idle" /\ sanPath = "none" /\ rawText = <<>> /\ sanitizedText = <<>>
  \* the page is not submitting
  /\ hpc = "idle" /\ file = FALSE /\ textPrompt = FALSE /\ isLoading = FALSE
  /\ loadingStage = "" /\ loadingTimer = "none" /\ loadingMessageIndex = 0
  /\ result = "null" /\ pageError = "null" /\ showForm = TRUE
  \* the camera is not shown
  /\ cmounted = FALSE /\ stream = 0 /\ facingMode = "environment"
  /\ effects = <<>> /\ stopped = {} /\ cameraError = FALSE

\* the checkpoints do not look at the signal
aborted_m(sig) == FALSE

\* part_002:528 / 368 / 559 / 581: signal?.aborted
aborted(sig) == sig = "aborted"

\* a throw inside the try of processReceipt: control goes to the catch at 743
\* a thrown error sends processReceipt back to the model call
Throw_m(e) == rpc' = "preModel" /\ pendingError' = e

\* part_002:743: a throw inside the try block is taken by the catch block
Throw(e) == rpc' = "catch" /\ pendingError' = e

AbortError == Err("AbortError", "")

\* the points where processReceipt is suspended in an await
AwaitPcs == {"getUser", "upload", "model", "delete1", "convert", "tax", "delete2"}

\* The cancellation signal fires while processReceipt is suspended.  The
\* registered abortHandler (534-537) throws inside the event dispatch, which
\* does not reach processReceipt.
Abort ==
  /\ signal = "live"
  /\ rpc \in AwaitPcs
  /\ signal' = "aborted"
  /\ UNCHANGED <<rpc, imageUrl, imageData, finalImageUrl, user, listener,
                 parsedData, extracted, receiptData, convertCalls, lookupFailed, extractCalls,
                 taxCalls, uploads, blobs, deleteLog, error, pendingError,
                 record, table>>
  /\ UNCHANGED <<taxAnswer, saveUser, dbOps>>
  /\ UNCHANGED <<fvars, pvars, ovars>>

\* part_002:522-543
Start ==
  /\ rpc = "start"
  /\ finalImageUrl' = imageUrl
  /\ IF aborted(signal)
       THEN Throw(AbortError) /\ UNCHANGED listener
       ELSE /\ listener' = (signal # "none")
            /\ rpc' = "getUser"
            /\ UNCHANGED pendingError
  /\ UNCHANGED <<imageUrl, imageData, user, signal, parsedData, extracted,
                 receiptData, convertCalls, lookupFailed, extractCalls, taxCalls, uploads,
                 blobs, deleteLog, error, record, table>>
  /\ UNCHANGED <<taxAnswer, saveUser, dbOps>>
  /\ UNCHANGED <<fvars, pvars, ovars>>

\* part_002:546-554 and uploadImage 364-376
GetUser ==
  /\ rpc = "getUser"
  /\ \E u \in {"none", "u1"} :
       /\ user' = u
       /\ IF u = "none"
            THEN Throw(Err("Unauthenticated", "")) /\ UNCHANGED finalImageUrl
            ELSE IF finalImageUrl # ""
              THEN rpc' = "preModel" /\ UNCHANGED <<finalImageUrl, pendingError>>
              ELSE IF aborted(signal)
                THEN Throw(AbortError) /\ UNCHANGED finalImageUrl
                ELSE IF imageData # "base64"
                  THEN /\ finalImageUrl' = imageData
                       /\ rpc' = "preModel"
                       /\ UNCHANGED pendingError
                  ELSE rpc' = "upload" /\ UNCHANGED <<finalImageUrl, pendingError>>
  /\ UNCHANGED <<imageUrl, imageData, signal, listener, parsedData, extracted,
                 receiptData, convertCalls, lookupFailed, extractCalls, taxCalls, uploads,
                 blobs, deleteLog, error, record, table>>
  /\ UNCHANGED <<taxAnswer, saveUser, dbOps>>
  /\ UNCHANGED <<fvars, pvars, ovars>>

\* uploadImage 381-408: the storage upload returns
UploadDone ==
  /\ rpc = "upload"
  /\ \/ /\ Throw(Err("UploadError", ""))
        /\ UNCHANGED <<finalImageUrl, uploads, blobs>>
     \/ /\ uploads' = uploads \cup {"tmp"}
        /\ blobs' = blobs \cup {"tmp"}
        /\ finalImageUrl' = "tmp"
        /\ rpc' = "preModel"
        /\ UNCHANGED pendingError
  /\ UNCHANGED <<imageUrl, imageData, user, signal, listener, parsedData,
                 extracted, receiptData, convertCalls, lookupFailed, extractCalls, taxCalls,
                 deleteLog, error, record, table>>
  /\ UNCHANGED <<taxAnswer, saveUser, dbOps>>
  /\ UNCHANGED <<fvars, pvars, ovars>>

\* part_002:559-576: checkpoint before the model call, then the call is issued
PreModel ==
  /\ rpc = "preModel"
  /\ IF aborted(signal)
       THEN Throw(AbortError) /\ UNCHANGED extractCalls
       ELSE /\ extractCalls' = extractCalls + 1
            /\ rpc' = "model"
            /\ UNCHANGED pendingError
  /\ UNCHANGED <<imageUrl, imageData, finalImageUrl, user, signal, listener,
                 parsedData, extracted, receiptData, convertCalls, lookupFailed, taxCalls,
                 uploads, blobs, deleteLog, error, record, table>>
  /\ UNCHANGED <<taxAnswer, saveUser, dbOps>>
  /\ UNCHANGED <<fvars, pvars, ovars>>

\* part_002:568-593: the model call returns; checkpoint; listener removed
ModelDone ==
  /\ rpc = "model"
  /\ \/ Throw(Err("ModelError", "")) /\ UNCHANGED listener
     \/ IF aborted(signal)
          THEN Throw(AbortError) /\ UNCHANGED listener
          ELSE /\ listener' = FALSE
               /\ rpc' = "parse"
               /\ UNCHANGED pendingError
  /\ UNCHANGED <<imageUrl, imageData, finalImageUrl, user, signal, parsedData,
                 extracted, receiptData, convertCalls, lookupFailed, extractCalls, taxCalls,
                 uploads, blobs, deleteLog, error, record, table>>
  /\ UNCHANGED <<taxAnswer, saveUser, dbOps>>
  /\ UNCHANGED <<fvars, pvars, ovars>>

\* part_002:596-608: match the JSON in the text and parse it
Parse ==
  /\ rpc = "parse"
  /\ \/ Throw(Err("InvalidFormat", "")) /\ UNCHANGED <<parsedData, extracted, receiptData>>
     \/ Throw(Err("ParseFailed", "")) /\ UNCHANGED <<parsedData, extracted, receiptData>>
     \/ /\ \E r \in Reasons : parsedData' = [isReceipt |-> "false", reason |-> r]
        /\ rpc' = "classify"
        /\ UNCHANGED <<extracted, receiptData, pendingError>>
     \/ /\ \E ir \in {"true", "undefined"} : parsedData' = [isReceipt |-> ir, reason |-> ""]
        /\ \E d \in ReceiptInputs : extracted' = d /\ receiptData' = d
        /\ rpc' = "classify"
        /\ UNCHANGED pendingError
  /\ UNCHANGED <<imageUrl, imageData, finalImageUrl, user, signal, listener,
                 convertCalls, lookupFailed, extractCalls, taxCalls, uploads, blobs, deleteLog,
                 error, record, table>>
  /\ UNCHANGED <<taxAnswer, saveUser, dbOps>>
  /\ UNCHANGED <<fvars, pvars, ovars>>

\* the not-a-receipt error without the reason the model gave
NotAReceipt_m(p) == Err("NotAReceipt", "Unable to identify receipt content")

\* part_002:617: the message of the not-a-receipt error
NotAReceipt(p) ==
  Err("NotAReceipt",
      IF p.reason # "" THEN p.reason ELSE "Unable to identify receipt content")

\* part_002:611-622.  parsedData is not read after line 622.
Classify ==
  /\ rpc = "classify"
  /\ IF parsedData.isReceipt = "false"
       THEN /\ IF imageUrl = ""
                 THEN rpc' = "delete1" /\ UNCHANGED pendingError
                 ELSE Throw(NotAReceipt(parsedData))
            /\ UNCHANGED parsedData
       ELSE /\ rpc' = "normalize"
            /\ parsedData' = NoParsed
            /\ UNCHANGED pendingError
  /\ UNCHANGED <<imageUrl, imageData, finalImageUrl, user, signal, listener,
                 extracted, receiptData, convertCalls, lookupFailed, extractCalls, taxCalls,
                 uploads, blobs, deleteLog, error, record, table>>
  /\ UNCHANGED <<taxAnswer, saveUser, dbOps>>
  /\ UNCHANGED <<fvars, pvars, ovars>>

\* part_002:968-1022: one invocation of deleteImage(url) with outcome o
DeleteEffect(url, o) ==
  /\ deleteLog' = Append(deleteLog, [url |-> url, outcome |-> o])
  /\ blobs' = IF o = "removed" THEN blobs \ {url} ELSE blobs

\* part_002:613-617: deleteImage on the not-a-receipt path, then the throw
DeleteNotReceipt ==
  /\ rpc = "delete1"
  /\ \E o \in DeleteOutcomes(finalImageUrl) :
       /\ DeleteEffect(finalImageUrl, o)
       /\ IF deleteImageThrows(o)
            THEN Throw(Err("DeleteError", ""))
            ELSE Throw(NotAReceipt(parsedData))
  /\ UNCHANGED <<imageUrl, imageData, finalImageUrl, user, signal, listener,
                 parsedData, extracted, receiptData, convertCalls, lookupFailed, extractCalls,
                 taxCalls, uploads, error, record, table>>
  /\ UNCHANGED <<taxAnswer, saveUser, dbOps>>
  /\ UNCHANGED <<fvars, pvars, ovars>>


\* the flag is not cleared when no currency code was determined
NormalizeStep_m(rd) ==
  IF rd.currencyConverted
    THEN LET originalCurrency == normalizeOriginalCurrency(rd.originalCurrency)
         IN IF TruthyStr(originalCurrency)
              THEN [rd EXCEPT !.originalCurrency = originalCurrency]
              ELSE rd
    ELSE rd

\* part_002:625-641: normalize the currency code before conversion
NormalizeStep(rd) ==
  IF rd.currencyConverted
    THEN LET originalCurrency == normalizeOriginalCurrency(rd.originalCurrency)
         IN IF TruthyStr(originalCurrency)
              THEN [rd EXCEPT !.originalCurrency = originalCurrency]
              ELSE [rd EXCEPT !.currencyConverted = FALSE]
    ELSE rd

\* the pass runs when the flag or the currency code is set
WillConvert_m(rd) == rd.currencyConverted \/ TruthyStr(rd.originalCurrency)

\* part_002:644: the condition of the conversion pass
WillConvert(rd) == rd.currencyConverted /\ TruthyStr(rd.originalCurrency)

Normalize ==
  /\ rpc = "normalize"
  /\ receiptData' = NormalizeStep(receiptData)
  /\ IF WillConvert(receiptData')
       THEN IF receiptData.items.defined
              THEN rpc' = "convert" /\ UNCHANGED pendingError
              ELSE \* 656: iterating undefined throws; rethrown at 694
                   Throw(Err("ConversionFailed", ""))
       ELSE rpc' = "format" /\ UNCHANGED pendingError
  /\ UNCHANGED <<imageUrl, imageData, finalImageUrl, user, signal, listener,
                 parsedData, extracted, convertCalls, lookupFailed, extractCalls,
                 taxCalls, uploads, blobs, deleteLog, error, record, table>>
  /\ UNCHANGED <<taxAnswer, saveUser, dbOps>>
  /\ UNCHANGED <<fvars, pvars, ovars>>

B(b) == IF b THEN 1 ELSE 0

\* part_002:663 / 670: subtotal and tax amount are converted only when truthy
SubtotalConverted(rd) == Truthy(rd.subtotal)
TaxConverted(rd) == rd.tax.defined /\ Truthy(rd.tax.v[1])

\* part_002:682: discounts are converted when the list is present
DiscountsConverted(rd) == rd.discounts.defined

\* the number of convertAmount calls of a complete pass (654-689)
ConvSlots(rd) ==
  Len(rd.items.v) + B(SubtotalConverted(rd)) + B(TaxConverted(rd)) + 1
    + (IF DiscountsConverted(rd) THEN Len(rd.discounts.v) ELSE 0)

\* the position of the total among the convertAmount calls of the pass
TotalSlot(rd) ==
  Len(rd.items.v) + B(SubtotalConverted(rd)) + B(TaxConverted(rd)) + 1

\* the discounts are left out of the pass
DiscountAt_m(rd, k, j) == rd.discounts.v[j]

\* part_002:682-689: discount j after the first k calls of the pass succeeded
DiscountAt(rd, k, j) ==
  IF TotalSlot(rd) + j <= k
    THEN convert(ToNumber(rd.discounts.v[j]))
    ELSE rd.discounts.v[j]

\* part_002:654-689: receiptData after the first k convertAmount calls of the
\* pass succeeded: item prices in order, subtotal, tax amount, total, discounts
ConvertPass(rd, k) ==
  LET nI == Len(rd.items.v)
      c1 == nI + B(SubtotalConverted(rd))
      c2 == c1 + B(TaxConverted(rd))
      c3 == TotalSlot(rd)
  IN [rd EXCEPT
        !.items = Present([i \in 1..nI |->
                     IF i <= k THEN convert(ToNumber(rd.items.v[i]))
                               ELSE rd.items.v[i]]),
        !.subtotal = IF SubtotalConverted(rd) /\ c1 <= k
                       THEN convert(ToNumber(rd.subtotal)) ELSE rd.subtotal,
        !.tax = IF TaxConverted(rd) /\ c2 <= k
                  THEN Present(<<convert(ToNumber(rd.tax.v[1]))>>) ELSE rd.tax,
        !.total = IF c3 <= k THEN convert(ToNumber(rd.total)) ELSE rd.total,
        !.discounts = IF DiscountsConverted(rd)
                        THEN Present([j \in 1..Len(rd.discounts.v) |->
                                        DiscountAt(rd, k, j)])
                        ELSE rd.discounts]

\* the error of a failed lookup is swallowed
ConvertFailed_m(k, n) == FALSE

\* part_002:692-695: the pass fails as a whole when one lookup failed
ConvertFailed(k, n) == k < n

\* part_002:645-696: the conversion pass; k lookups succeed before one fails
\* (k = number of calls of a complete pass: none fails)
Convert ==
  /\ rpc = "convert"
  /\ \E k \in 0..ConvSlots(receiptData) :
       /\ receiptData' = ConvertPass(receiptData, k)
       /\ lookupFailed' = (k < ConvSlots(receiptData))
       /\ convertCalls' = IF k < ConvSlots(receiptData) THEN k + 1 ELSE k
       /\ IF ConvertFailed(k, ConvSlots(receiptData))
            THEN Throw(Err("ConversionFailed", ""))
            ELSE rpc' = "format" /\ UNCHANGED pendingError
  /\ UNCHANGED <<imageUrl, imageData, finalImageUrl, user, signal, listener,
                 parsedData, extracted, extractCalls, taxCalls, uploads, blobs,
                 deleteLog, error, record, table>>
  /\ UNCHANGED <<taxAnswer, saveUser, dbOps>>
  /\ UNCHANGED <<fvars, pvars, ovars>>

\* part_002:702-736: the record built from receiptData
FormatRecord(rd, uid, url) ==
  [returned |-> TRUE,
   user_id |-> uid,
   store_name |-> IF rd.storeName THEN "store" ELSE "Unknown Store",
   items |-> IF rd.items.defined
               THEN [i \in 1..Len(rd.items.v) |-> ToNumber(rd.items.v[i])]
               ELSE <<>>,
   subtotal |-> OrZero(ToNumber(rd.subtotal)),
   tax |-> IF rd.tax.defined
             THEN Present(<<OrZero(ToNumber(rd.tax.v[1]))>>) ELSE Absent,
   discounts |-> IF rd.discounts.defined
                   THEN Present([j \in 1..Len(rd.discounts.v) |->
                                   ToNumber(rd.discounts.v[j])])
                   ELSE Absent,
   total |-> OrZero(ToNumber(rd.total)),
   image_url |-> url,
   tax_category |-> "null",
   currency_converted |-> rd.currencyConverted,
   original_currency |-> IF TruthyStr(rd.originalCurrency)
                           THEN rd.originalCurrency ELSE Null]

\* part_002:699-739: build the record, then call determineTaxCategory
Format ==
  /\ rpc = "format"
  /\ record' = [FormatRecord(receiptData, user, finalImageUrl)
                  EXCEPT !.returned = FALSE]
  /\ rpc' = "tax"
  /\ UNCHANGED <<imageUrl, imageData, finalImageUrl, user, signal, listener,
                 parsedData, extracted, receiptData, convertCalls, lookupFailed,
                 extractCalls, taxCalls, uploads, blobs, deleteLog, error,
                 pendingError, table>>
  /\ UNCHANGED <<taxAnswer, saveUser, dbOps>>
  /\ UNCHANGED <<fvars, pvars, ovars>>

\* the ways the tax-classification model call can go: it throws, or it answers
\* the text "null" or the name of a category
TaxAnswers == {"throws", "null", "medical"}

\* the catch of determineTaxCategory hands the failure on as the category
TaxCategoryOf_m(answer) ==
  CASE answer = "null" -> "null"
    [] OTHER -> answer

\* part_002:495-515: determineTaxCategory never throws
TaxCategoryOf(answer) ==
  CASE answer = "throws" -> "null"
    [] answer = "null" -> "null"
    [] OTHER -> answer

\* part_002:739-742: the tax category is set and the record returned
Tax ==
  /\ rpc = "tax"
  /\ taxCalls' = taxCalls + 1
  /\ \E answer \in TaxAnswers :
       /\ taxAnswer' = answer
       /\ record' = [record EXCEPT !.tax_category = TaxCategoryOf(answer),
                                   !.returned = TRUE]
  /\ rpc' = "done"
  /\ UNCHANGED <<imageUrl, imageData, finalImageUrl, user, signal, listener,
                 parsedData, extracted, receiptData, convertCalls, lookupFailed,
                 extractCalls, uploads, blobs, deleteLog, error, pendingError,
                 table>>
  /\ UNCHANGED <<saveUser, dbOps>>
  /\ UNCHANGED <<fvars, pvars, ovars>>

\* the compensating deletion is run whether or not a URL was passed in
ShouldCleanup_m(url, e) == InstanceOfError(e)

\* part_002:747: is the compensating deletion run for this error
ShouldCleanup(url, e) == url = "" /\ InstanceOfError(e)

\* the catch hands back what has been extracted so far instead of rethrowing
ThrownResult_m(rd, uid, url) == FormatRecord(rd, uid, url)

\* part_002:756: the error is rethrown, so the call yields no record
ThrownResult(rd, uid, url) == NoRecord

\* part_002:743-756: the catch block
Catch ==
  /\ rpc = "catch"
  /\ record' = ThrownResult(receiptData, user, finalImageUrl)
  /\ IF ShouldCleanup(imageUrl, pendingError)
       THEN rpc' = "delete2" /\ UNCHANGED error
       ELSE rpc' = "failed" /\ error' = pendingError
  /\ UNCHANGED <<imageUrl, imageData, finalImageUrl, user, signal, listener,
                 parsedData, extracted, receiptData, convertCalls, lookupFailed,
                 extractCalls, taxCalls, uploads, blobs, deleteLog,
                 pendingError, table>>
  /\ UNCHANGED <<taxAnswer, saveUser, dbOps>>
  /\ UNCHANGED <<fvars, pvars, ovars>>

\* part_002:748-756: deleteImage inside try/catch, then the error is rethrown
DeleteOnError ==
  /\ rpc = "delete2"
  /\ \E o \in DeleteOutcomes(finalImageUrl) : DeleteEffect(finalImageUrl, o)
  /\ error' = pendingError
  /\ rpc' = "failed"
  /\ UNCHANGED <<imageUrl, imageData, finalImageUrl, user, signal, listener,
                 parsedData, extracted, receiptData, convertCalls, lookupFailed,
                 extractCalls, taxCalls, uploads, pendingError, record, table>>
  /\ UNCHANGED <<taxAnswer, saveUser, dbOps>>
  /\ UNCHANGED <<fvars, pvars, ovars>>

\* the user_id of the record passed in is kept
receiptWithUserId_m(r, uid) == r

\* part_002:774-777: the row to insert
receiptWithUserId(r, uid) == [r EXCEPT !.user_id = uid]

\* part_002:760-795: saveReceipt(record), which a caller can invoke once it
\* holds a record; the session at that time may be gone ("none") or belong to
\* a user ("u2") other than the one that processed ("u1"), which is the case
\* that tells the user of the row from the user of the record
SaveReceipt ==
  /\ rpc \in {"done", "failed"}
  /\ record.returned
  /\ \E u \in {"none", "u2"}, db \in {"ok", "error"} :
       /\ saveUser' = u
       /\ IF u = "none"
            THEN \* 765-768
                 /\ rpc' = "saveFailed"
                 /\ UNCHANGED <<table, dbOps>>
            ELSE \* 781-788: the one insert, which the database may reject
                 /\ dbOps' = Append(dbOps, "insert")
                 /\ IF db = "ok"
                      THEN /\ table' = Append(table, receiptWithUserId(record, u))
                           /\ rpc' = "saved"
                      ELSE /\ rpc' = "saveFailed"
                           /\ UNCHANGED table
  /\ UNCHANGED <<imageUrl, imageData, finalImageUrl, user, signal, listener,
                 parsedData, extracted, receiptData, convertCalls, lookupFailed,
                 extractCalls, taxCalls, uploads, blobs, deleteLog, error,
                 pendingError, record>>
  /\ UNCHANGED taxAnswer
  /\ UNCHANGED <<fvars, pvars, ovars>>

ReceiptNext ==
  \/ Abort
  \/ Start
  \/ GetUser
  \/ UploadDone
  \/ PreModel
  \/ ModelDone
  \/ Parse
  \/ Classify
  \/ DeleteNotReceipt
  \/ Normalize
  \/ Convert
  \/ Format
  \/ Tax
  \/ Catch
  \/ DeleteOnError
  \/ SaveReceipt

(***************************************************************************)
(*            normalizeOriginalCurrency APPLIED TO ONE INPUT               *)
(***************************************************************************)
MaxCurrencyLen == 3

\* the characters the inputs are made of
CurrencyChars == {"$", "S", "R", "M", "p", "x", " ", "u", "s", "d"}

\* the currency strings tried: null, every string of up to MaxCurrencyLen
\* characters (the empty string included), and every key of the symbol table
CurrencyInputs ==
  {Null}
    \cup {Str(c) : c \in SeqsUpTo(CurrencyChars, MaxCurrencyLen)}
    \cup {Str(symbolMap[k].symbol) : k \in 1..Len(symbolMap)}

NormalizeInit ==
  /\ npc = "call"
  /\ currencyArg \in CurrencyInputs
  /\ normalized = Null
  \* the sanitize-and-parse step is not being applied
  /\ ppc = "idle" /\ text = <<>> /\ parseResult = <<>>
  \* the fashion handler is not running
  /\ fpc = "idle"
  /\ form = [ok |-> FALSE, imageFile |-> FALSE, textPrompt |-> FALSE]
  /\ elapsed = 0 /\ modelOut = NoModelOut /\ outfits = <<>> /\ loopIdx = 0
  /\ analysisCalls = 0 /\ imageCalls = 0 /\ response = NoResponse
  \* the receipt pipeline is not running
  /\ rpc = "idle" /\ imageUrl = "" /\ imageData = "base64" /\ signal = "none"
  /\ finalImageUrl = "" /\ user = "none" /\ listener = FALSE
  /\ parsedData = NoParsed /\ extracted = NoReceipt /\ receiptData = NoReceipt
  /\ convertCalls = 0 /\ lookupFailed = FALSE /\ extractCalls = 0 /\ taxCalls = 0
  /\ uploads = {} /\ blobs = {} /\ deleteLog = <<>> /\ error = NoError
  /\ pendingError = NoError /\ record = NoRecord /\ table = <<>>
  /\ taxAnswer = "none" /\ saveUser = "unset" /\ dbOps = <<>>
  \* no fashion sanitizer is being applied
  /\ spc = "idle" /\ sanPath = "none" /\ rawText = <<>> /\ sanitizedText = <<>>
  \* the page is not submitting
  /\ hpc = "idle" /\ file = FALSE /\ textPrompt = FALSE /\ isLoading = FALSE
  /\ loadingStage = "" /\ loadingTimer = "none" /\ loadingMessageIndex = 0
  /\ result = "null" /\ pageError = "null" /\ showForm = TRUE
  \* the camera is not shown
  /\ cmounted = FALSE /\ stream = 0 /\ facingMode = "environment"
  /\ effects = <<>> /\ stopped = {} /\ cameraError = FALSE

\* part_002:626 / 1025-1088: one call of normalizeOriginalCurrency
NormalizeCall ==
  /\ npc = "call"
  /\ normalized' = normalizeOriginalCurrency(currencyArg)
  /\ npc' = "returned"
  /\ UNCHANGED <<currencyArg, ppc, text, parseResult>>
  /\ UNCHANGED <<fvars, rvars, ovars>>

NormalizeNext == NormalizeCall


(***************************************************************************)
(*        THE SANITIZE-AND-PARSE STEP APPLIED TO ONE MODEL OUTPUT          *)
(***************************************************************************)
\* A model output is a sequence of tokens: "{" and "}", "m" (a member that is
\* not an object, such as "total": 3, with its separating comma), "ws" (white
\* space), "fence" (three backticks), "json" (the word json after a fence) and
\* "prose" (any other words).
MaxJsonLen == 6

JsonTokens == {"{", "}", "m"}

\* the number of tokens tok among the first i tokens of t
CountOf(t, tok, i) == Cardinality({j \in 1..i : t[j] = tok})

\* the nesting depth after the first i tokens of t
Depth(t, i) == CountOf(t, "{", i) - CountOf(t, "}", i)

\* t is one JSON object: an opening brace, members and objects, and the brace
\* that closes it as the last token
IsObject(t) ==
  /\ Len(t) >= 2
  /\ \A j \in 1..Len(t) : t[j] \in JsonTokens
  /\ t[1] = "{"
  /\ \A i \in 1..(Len(t) - 1) : Depth(t, i) >= 1
  /\ Depth(t, Len(t)) = 0

RECURSIVE StripWs(_)
StripWs(t) ==
  IF t = <<>> THEN <<>>
  ELSE IF Head(t) = "ws" THEN StripWs(Tail(t))
  ELSE <<Head(t)>> \o StripWs(Tail(t))

ParseOk(o) == [status |-> "ok", obj |-> o]
ParseError(e) == [status |-> e, obj |-> <<>>]
NoParseResult == [status |-> "none", obj |-> <<>>]

\* JSON.parse(t): white space around the tokens is skipped; anything that is
\* not one object (all outputs here are objects or not JSON at all) throws
JSONparse(t) ==
  IF IsObject(StripWs(t)) THEN ParseOk(StripWs(t)) ELSE ParseError("SyntaxError")

\* the positions after position i that hold only white space up to a fence
ClosesAt(t, b) ==
  \E f \in (b + 1)..Len(t) :
    /\ t[f] = "fence"
    /\ \A j \in (b + 1)..(f - 1) : t[j] = "ws"

\* part_002:596, first pattern /```json\s*({[\s\S]*?})\s*```/: the matches
\* <<i, a, b>>: the fence at i, the group from the brace at a to the brace at b
FencedMatches(t) ==
  {m \in (1..Len(t)) \X (1..Len(t)) \X (1..Len(t)) :
     /\ m[1] + 1 < m[2] /\ m[2] < m[3]
     /\ t[m[1]] = "fence" /\ t[m[1] + 1] = "json"
     /\ \A j \in (m[1] + 2)..(m[2] - 1) : t[j] = "ws"
     /\ t[m[2]] = "{"
     /\ t[m[3]] = "}"
     /\ ClosesAt(t, m[3])}

\* the group of the leftmost match with the shortest lazy expansion
FencedGroup(t) ==
  LET ms == FencedMatches(t)
      best == CHOOSE m \in ms :
                \A n \in ms : m[1] < n[1] \/ (m[1] = n[1] /\ m[3] <= n[3])
  IN SubSeq(t, best[2], best[3])

\* part_002:596, second pattern /{[\s\S]*?}/ matches when a closing brace
\* follows an opening brace; it has no group
BraceMatch(t) ==
  \E a \in 1..Len(t), b \in 1..Len(t) : a < b /\ t[a] = "{" /\ t[b] = "}"

\* part_002:604: jsonMatch[1] || text
ParsedText(t) == IF FencedMatches(t) # {} THEN FencedGroup(t) ELSE t

\* part_002:596-608 / 835-847: match, then parse
sanitizeAndParse(t) ==
  IF FencedMatches(t) = {} /\ ~BraceMatch(t)
    THEN ParseError("InvalidFormat")
    ELSE IF JSONparse(ParsedText(t)).status = "ok"
      THEN JSONparse(ParsedText(t))
      ELSE ParseError("ParseFailed")

\* the JSON objects of up to MaxJsonLen tokens
JsonObjects == {t \in SeqsUpTo(JsonTokens, MaxJsonLen) : IsObject(t)}

\* the ways the model emits an object: alone, in a json code fence, in a json
\* code fence inside prose, in a plain code fence, or with prose around it
Wrappers == {"alone", "fenced", "fencedProse", "plainFence", "proseBefore",
             "proseAfter", "proseAround"}

Wrap(w, o) ==
  CASE w = "alone" -> o
    [] w = "fenced" -> <<"fence", "json", "ws">> \o o \o <<"ws", "fence">>
    [] w = "fencedProse" ->
         <<"prose", "ws", "fence", "json", "ws">> \o o \o <<"ws", "fence", "ws", "prose">>
    [] w = "plainFence" -> <<"fence", "ws">> \o o \o <<"ws", "fence">>
    [] w = "proseBefore" -> <<"prose", "ws">> \o o
    [] w = "proseAfter" -> o \o <<"ws", "prose">>
    [] OTHER -> <<"prose", "ws">> \o o \o <<"ws", "prose">>

\* the model outputs tried, and one that holds no object at all
ModelTexts ==
  {Wrap(w, o) : w \in Wrappers, o \in JsonObjects} \cup {<<"prose">>}

ParseInit ==
  /\ ppc = "match"
  /\ text \in ModelTexts
  /\ parseResult = NoParseResult
  \* the normalizer is not being applied
  /\ npc = "idle" /\ currencyArg = Null /\ normalized = Null
  \* the fashion handler is not running
  /\ fpc = "idle"
  /\ form = [ok |-> FALSE, imageFile |-> FALSE, textPrompt |-> FALSE]
  /\ elapsed = 0 /\ modelOut = NoModelOut /\ outfits = <<>> /\ loopIdx = 0
  /\ analysisCalls = 0 /\ imageCalls = 0 /\ response = NoResponse
  \* the receipt pipeline is not running
  /\ rpc = "idle" /\ imageUrl = "" /\ imageData = "base64" /\ signal = "none"
  /\ finalImageUrl = "" /\ user = "none" /\ listener = FALSE
  /\ parsedData = NoParsed /\ extracted = NoReceipt /\ receiptData = NoReceipt
  /\ convertCalls = 0 /\ lookupFailed = FALSE /\ extractCalls = 0 /\ taxCalls = 0
  /\ uploads = {} /\ blobs = {} /\ deleteLog = <<>> /\ error = NoError
  /\ pendingError = NoError /\ record = NoRecord /\ table = <<>>
  /\ taxAnswer = "none" /\ saveUser = "unset" /\ dbOps = <<>>
  \* no fashion sanitizer is being applied
  /\ spc = "idle" /\ sanPath = "none" /\ rawText = <<>> /\ sanitizedText = <<>>
  \* the page is not submitting
  /\ hpc = "idle" /\ file = FALSE /\ textPrompt = FALSE /\ isLoading = FALSE
  /\ loadingStage = "" /\ loadingTimer = "none" /\ loadingMessageIndex = 0
  /\ result = "null" /\ pageError = "null" /\ showForm = TRUE
  \* the camera is not shown
  /\ cmounted = FALSE /\ stream = 0 /\ facingMode = "environment"
  /\ effects = <<>> /\ stopped = {} /\ cameraError = FALSE

\* part_002:596-608: the step applied to the text
MatchAndParse ==
  /\ ppc = "match"
  /\ parseResult' = sanitizeAndParse(text)
  /\ ppc' = "parsed"
  /\ UNCHANGED <<text, npc, currencyArg, normalized>>
  /\ UNCHANGED <<fvars, rvars, ovars>>

ParseNext == MatchAndParse


(***************************************************************************)
(*          A FASHION SANITIZER APPLIED TO ONE MODEL OUTPUT                *)
(***************************************************************************)
\* The texts are the token sequences of the sanitize-and-parse step above.

\* .replace(/```/g, ''): every fence is removed
RemoveFences(t) == SelectSeq(t, LAMBDA x : x # "fence")

RECURSIVE DropWs(_)
\* the leading white space removed
DropWs(t) == IF t # <<>> /\ Head(t) = "ws" THEN DropWs(Tail(t)) ELSE t

RECURSIVE DropWsEnd(_)
DropWsEnd(t) ==
  IF t # <<>> /\ t[Len(t)] = "ws" THEN DropWsEnd(SubSeq(t, 1, Len(t) - 1)) ELSE t

\* String.prototype.trim
TrimWs(t) == DropWsEnd(DropWs(t))

\* the positions of a token in a text
Positions(t, tok) == {i \in 1..Len(t) : t[i] = tok}

FirstOf(t, tok) == CHOOSE i \in Positions(t, tok) : \A j \in Positions(t, tok) : i <= j

LastOf(t, tok) == CHOOSE i \in Positions(t, tok) : \A j \in Positions(t, tok) : i >= j

\* route.ts:166, /^\s*(```*\s*json|json)\s*\n*/gi: a leading json tag, with
\* or without its fence, is removed with the white space around it
RemoveLeadingTag(t) ==
  LET u == DropWs(t)
  IN IF u # <<>> /\ Head(u) = "json" THEN DropWs(Tail(u))
     ELSE IF u # <<>> /\ Head(u) = "fence" /\ DropWs(Tail(u)) # <<>>
                      /\ Head(DropWs(Tail(u))) = "json"
       THEN DropWs(Tail(DropWs(Tail(u))))
       ELSE t

\* route.ts:168, /^[^{]*/: everything before the first opening brace (the
\* whole text when it has none) is removed
RemoveBeforeBrace(t) ==
  IF Positions(t, "{") = {} THEN <<>> ELSE SubSeq(t, FirstOf(t, "{"), Len(t))

\* route.ts:169, /}[^}]*$/: the closing brace that no closing brace follows,
\* and what follows it, become one closing brace
RemoveAfterLastBrace(t) ==
  IF Positions(t, "}") = {} THEN t ELSE SubSeq(t, 1, LastOf(t, "}"))

\* route.ts:173 and 306, /^json\s*\n/gi and /^json\n/gi: a leading json tag
\* and the line break after it are removed
RemoveJsonLine(t) ==
  IF Len(t) >= 2 /\ t[1] = "json" /\ t[2] = "ws" THEN Tail(Tail(t)) ELSE t

\* route.ts:174, /^\s*{\s*/: the white space around the opening brace goes
TightenOpeningBrace(t) ==
  IF DropWs(t) # <<>> /\ Head(DropWs(t)) = "{"
    THEN <<"{">> \o DropWs(Tail(DropWs(t)))
    ELSE t

\* route.ts:165-174: the sanitizer of the image path
sanitizeImagePath(t) ==
  TightenOpeningBrace(RemoveJsonLine(TrimWs(TrimWs(
    RemoveAfterLastBrace(RemoveBeforeBrace(RemoveFences(RemoveLeadingTag(t))))))))

\* route.ts:303, /^[\s\S]*?(?={)/i: everything before the first opening
\* brace is removed; a text without one is left as it is
RemoveUpToLookahead(t) ==
  IF Positions(t, "{") = {} THEN t ELSE SubSeq(t, FirstOf(t, "{"), Len(t))

\* route.ts:304, /}[\s\S]*$/i: the leftmost closing brace and all that
\* follows it, closing braces included, become one closing brace
RemoveFromFirstClosingBrace(t) ==
  IF Positions(t, "}") = {} THEN t ELSE SubSeq(t, 1, FirstOf(t, "}"))

\* route.ts:302-307: the sanitizer of the text-prompt path
sanitizeTextPath(t) ==
  TrimWs(RemoveJsonLine(RemoveFences(
    RemoveFromFirstClosingBrace(RemoveUpToLookahead(t)))))

SanitizeInit ==
  /\ spc = "raw"
  /\ sanPath \in {"image", "text"}
  /\ rawText \in ModelTexts
  /\ sanitizedText = <<>>
  \* the two receipt functions are not being applied
  /\ npc = "idle" /\ currencyArg = Null /\ normalized = Null
  /\ ppc = "idle" /\ text = <<>> /\ parseResult = NoParseResult
  \* the fashion handler is not running
  /\ fpc = "idle"
  /\ form = [ok |-> FALSE, imageFile |-> FALSE, textPrompt |-> FALSE]
  /\ elapsed = 0 /\ modelOut = NoModelOut /\ outfits = <<>> /\ loopIdx = 0
  /\ analysisCalls = 0 /\ imageCalls = 0 /\ response = NoResponse
  \* the receipt pipeline is not running
  /\ rpc = "idle" /\ imageUrl = "" /\ imageData = "base64" /\ signal = "none"
  /\ finalImageUrl = "" /\ user = "none" /\ listener = FALSE
  /\ parsedData = NoParsed /\ extracted = NoReceipt /\ receiptData = NoReceipt
  /\ convertCalls = 0 /\ lookupFailed = FALSE /\ extractCalls = 0 /\ taxCalls = 0
  /\ uploads = {} /\ blobs = {} /\ deleteLog = <<>> /\ error = NoError
  /\ pendingError = NoError /\ record = NoRecord /\ table = <<>>
  /\ taxAnswer = "none" /\ saveUser = "unset" /\ dbOps = <<>>
  \* the page is not submitting
  /\ hpc = "idle" /\ file = FALSE /\ textPrompt = FALSE /\ isLoading = FALSE
  /\ loadingStage = "" /\ loadingTimer = "none" /\ loadingMessageIndex = 0
  /\ result = "null" /\ pageError = "null" /\ showForm = TRUE
  \* the camera is not shown
  /\ cmounted = FALSE /\ stream = 0 /\ facingMode = "environment"
  /\ effects = <<>> /\ stopped = {} /\ cameraError = FALSE

\* route.ts:165-174: the image path sanitizes the text
SanitizeImage ==
  /\ spc = "raw" /\ sanPath = "image"
  /\ sanitizedText' = sanitizeImagePath(rawText)
  /\ spc' = "sanitized"
  /\ UNCHANGED <<sanPath, rawText>>
  /\ UNCHANGED <<fvars, rvars, pvars, hvars, cvars>>

\* route.ts:302-307: the text-prompt path sanitizes the text
SanitizeText ==
  /\ spc = "raw" /\ sanPath = "text"
  /\ sanitizedText' = sanitizeTextPath(rawText)
  /\ spc' = "sanitized"
  /\ UNCHANGED <<sanPath, rawText>>
  /\ UNCHANGED <<fvars, rvars, pvars, hvars, cvars>>

SanitizeNext ==
  \/ SanitizeImage
  \/ SanitizeText


(***************************************************************************)
(*                      THE PAGE'S handleSubmit                            *)
(***************************************************************************)
\* page.tsx:84-93
loadingMessages ==
  <<"Preparing your request...",
    "Converting image for processing...",
    "Analyzing fashion elements...",
    "Identifying clothing style and features...",
    "Creating outfit combinations...",
    "Generating styling recommendations...",
    "Creating outfit visualizations...",
    "Finalizing your fashion suggestions...">>

\* how the fetch of /api/fashion ends: it rejects, or it resolves with a
\* response that is not OK or OK
FetchOutcomes == {"rejected", "notOk", "ok"}

\* what response.json() yields: it rejects (the body is not JSON), null, a
\* result, or a rawResponse whose text parses or does not
BodyOutcomes == {"rejected", "null", "data", "rawParses", "rawFails"}

PageInit ==
  /\ hpc = "start"
  /\ file \in BOOLEAN
  /\ textPrompt \in BOOLEAN
  /\ isLoading = FALSE
  /\ loadingStage = ""
  /\ loadingTimer = "none"
  /\ loadingMessageIndex = 0
  /\ result \in {"null", "data"}
  /\ pageError \in {"null", "Error: 500"}
  /\ showForm = TRUE
  \* the camera is not shown
  /\ cmounted = FALSE /\ stream = 0 /\ facingMode = "environment"
  /\ effects = <<>> /\ stopped = {} /\ cameraError = FALSE
  \* no pure function is being applied
  /\ npc = "idle" /\ currencyArg = Null /\ normalized = Null
  /\ ppc = "idle" /\ text = <<>> /\ parseResult = NoParseResult
  /\ spc = "idle" /\ sanPath = "none" /\ rawText = <<>> /\ sanitizedText = <<>>
  \* the fashion handler is not running
  /\ fpc = "idle"
  /\ form = [ok |-> FALSE, imageFile |-> FALSE, textPrompt |-> FALSE]
  /\ elapsed = 0 /\ modelOut = NoModelOut /\ outfits = <<>> /\ loopIdx = 0
  /\ analysisCalls = 0 /\ imageCalls = 0 /\ response = NoResponse
  \* the receipt pipeline is not running
  /\ rpc = "idle" /\ imageUrl = "" /\ imageData = "base64" /\ signal = "none"
  /\ finalImageUrl = "" /\ user = "none" /\ listener = FALSE
  /\ parsedData = NoParsed /\ extracted = NoReceipt /\ receiptData = NoReceipt
  /\ convertCalls = 0 /\ lookupFailed = FALSE /\ extractCalls = 0 /\ taxCalls = 0
  /\ uploads = {} /\ blobs = {} /\ deleteLog = <<>> /\ error = NoError
  /\ pendingError = NoError /\ record = NoRecord /\ table = <<>>
  /\ taxAnswer = "none" /\ saveUser = "unset" /\ dbOps = <<>>

\* page.tsx:147-150: the finally block
Finally ==
  /\ isLoading' = FALSE
  /\ loadingStage' = ""
  /\ hpc' = "finished"

\* page.tsx:145-146: the catch block
CatchError(message) == pageError' = message

\* page.tsx:72-110: handleSubmit up to the await of fetch
Submit ==
  /\ hpc = "start"
  /\ result' = "null"
  /\ IF ~file /\ ~textPrompt
       THEN /\ CatchError("Please upload an image or provide a text description")
            /\ Finally
            /\ UNCHANGED <<loadingTimer, loadingMessageIndex>>
       ELSE /\ pageError' = "null"
            /\ isLoading' = TRUE
            /\ loadingMessageIndex' = 0
            /\ loadingTimer' = "active"
            /\ loadingStage' = "Sending request to AI fashion expert..."
            /\ hpc' = "fetch"
  /\ UNCHANGED <<file, textPrompt, showForm>>
  /\ UNCHANGED <<fvars, rvars, pvars, svars, cvars>>

\* page.tsx:96-99: the interval fires while no other code of the page runs
TimerTick ==
  /\ loadingTimer = "active"
  /\ hpc \in {"fetch", "json", "finished"}
  /\ loadingMessageIndex' = (loadingMessageIndex + 1) % Len(loadingMessages)
  /\ loadingStage' = loadingMessages[loadingMessageIndex' + 1]
  /\ UNCHANGED <<hpc, file, textPrompt, isLoading, loadingTimer, result,
                 pageError, showForm>>
  /\ UNCHANGED <<fvars, rvars, pvars, svars, cvars>>

\* page.tsx:110-121: the fetch settles
FetchSettled ==
  /\ hpc = "fetch"
  /\ \E outcome \in FetchOutcomes :
       CASE outcome = "rejected" ->
              /\ CatchError("Failed to fetch")
              /\ Finally
              /\ UNCHANGED loadingTimer
         [] outcome = "notOk" ->
              /\ loadingTimer' = "cleared"
              /\ CatchError("Error: 500")
              /\ Finally
         [] OTHER ->
              /\ loadingStage' = "Processing fashion recommendations..."
              /\ hpc' = "json"
              /\ UNCHANGED <<isLoading, loadingTimer, pageError>>
  /\ UNCHANGED <<file, textPrompt, loadingMessageIndex, result, showForm>>
  /\ UNCHANGED <<fvars, rvars, pvars, svars, cvars>>

\* page.tsx:121-150: response.json() settles
BodySettled ==
  /\ hpc = "json"
  /\ \E body \in BodyOutcomes :
       CASE body = "rejected" ->
              /\ CatchError("Unexpected token")
              /\ Finally
              /\ UNCHANGED <<loadingTimer, result, showForm>>
         [] body = "null" ->
              \* 123: reading rawResponse of null throws
              /\ CatchError("Cannot read properties of null")
              /\ Finally
              /\ UNCHANGED <<loadingTimer, result, showForm>>
         [] body = "rawFails" ->
              \* 132-136
              /\ loadingTimer' = "cleared"
              /\ CatchError("Failed to parse fashion recommendations")
              /\ Finally
              /\ UNCHANGED <<result, showForm>>
         [] OTHER ->
              \* 127-131 or 139, then 143-144
              /\ result' = IF body = "data" THEN "data" ELSE "parsed"
              /\ loadingTimer' = "cleared"
              /\ showForm' = FALSE
              /\ Finally
              /\ UNCHANGED pageError
  /\ UNCHANGED <<file, textPrompt, loadingMessageIndex>>
  /\ UNCHANGED <<fvars, rvars, pvars, svars, cvars>>

PageNext ==
  \/ Submit
  \/ TimerTick
  \/ FetchSettled
  \/ BodySettled


(***************************************************************************)
(*                      THE CameraView COMPONENT                           *)
(***************************************************************************)
\* the number of times the facing mode is switched
MaxSwitches == 2

\* One run of the effect of camera-view.tsx:18-58: its flag mounted, the
\* value of the state stream in the render it belongs to (the value its
\* startCamera and its cleanup read), and how its getUserMedia call stands.
\* The stream obtained by the i-th run is called i.
NewEffect(s) == [mounted |-> TRUE, stream |-> s, media |-> "pending"]

\* stream.getTracks().forEach(track => track.stop()) on a stream or on null
StopTracks(s) == IF s # 0 THEN {s} ELSE {}

\* camera-view.tsx:52-57: the cleanup of the latest run of the effect
Cleanup(es) ==
  [es EXCEPT ![Len(es)] = [es[Len(es)] EXCEPT !.mounted = FALSE]]

CameraInit ==
  /\ cmounted = FALSE
  /\ stream = 0
  /\ facingMode = "environment"
  /\ effects = <<>>
  /\ stopped = {}
  /\ cameraError = FALSE
  \* the page is not submitting
  /\ hpc = "idle" /\ file = FALSE /\ textPrompt = FALSE /\ isLoading = FALSE
  /\ loadingStage = "" /\ loadingTimer = "none" /\ loadingMessageIndex = 0
  /\ result = "null" /\ pageError = "null" /\ showForm = TRUE
  \* no pure function is being applied
  /\ npc = "idle" /\ currencyArg = Null /\ normalized = Null
  /\ ppc = "idle" /\ text = <<>> /\ parseResult = NoParseResult
  /\ spc = "idle" /\ sanPath = "none" /\ rawText = <<>> /\ sanitizedText = <<>>
  \* the fashion handler is not running
  /\ fpc = "idle"
  /\ form = [ok |-> FALSE, imageFile |-> FALSE, textPrompt |-> FALSE]
  /\ elapsed = 0 /\ modelOut = NoModelOut /\ outfits = <<>> /\ loopIdx = 0
  /\ analysisCalls = 0 /\ imageCalls = 0 /\ response = NoResponse
  \* the receipt pipeline is not running
  /\ rpc = "idle" /\ imageUrl = "" /\ imageData = "base64" /\ signal = "none"
  /\ finalImageUrl = "" /\ user = "none" /\ listener = FALSE
  /\ parsedData = NoParsed /\ extracted = NoReceipt /\ receiptData = NoReceipt
  /\ convertCalls = 0 /\ lookupFailed = FALSE /\ extractCalls = 0 /\ taxCalls = 0
  /\ uploads = {} /\ blobs = {} /\ deleteLog = <<>> /\ error = NoError
  /\ pendingError = NoError /\ record = NoRecord /\ table = <<>>
  /\ taxAnswer = "none" /\ saveUser = "unset" /\ dbOps = <<>>

\* camera-view.tsx:18-50: the component mounts and the effect runs
Mount ==
  /\ ~cmounted /\ effects = <<>>
  /\ cmounted' = TRUE
  /\ effects' = <<NewEffect(stream)>>
  /\ stopped' = stopped \cup StopTracks(stream)
  /\ UNCHANGED <<stream, facingMode, cameraError>>
  /\ UNCHANGED <<fvars, rvars, pvars, svars, hvars>>

\* camera-view.tsx:28-41: getUserMedia of the i-th run resolves
MediaResolved ==
  /\ \E i \in DOMAIN effects :
       /\ effects[i].media = "pending"
       /\ effects' = [effects EXCEPT ![i].media = "resolved"]
       /\ IF effects[i].mounted
            THEN stream' = i /\ UNCHANGED stopped
            ELSE stopped' = stopped \cup StopTracks(i) /\ UNCHANGED stream
  /\ UNCHANGED <<cmounted, facingMode, cameraError>>
  /\ UNCHANGED <<fvars, rvars, pvars, svars, hvars>>

\* camera-view.tsx:42-47: getUserMedia of the i-th run rejects
MediaRejected ==
  /\ \E i \in DOMAIN effects :
       /\ effects[i].media = "pending"
       /\ effects' = [effects EXCEPT ![i].media = "rejected"]
       /\ cameraError' = (cameraError \/ effects[i].mounted)
  /\ UNCHANGED <<cmounted, stream, facingMode, stopped>>
  /\ UNCHANGED <<fvars, rvars, pvars, svars, hvars>>

\* camera-view.tsx:109 and 18-58: the facing mode is switched; the cleanup
\* of the latest run is called, then the effect runs in the new render
SwitchFacingMode ==
  /\ cmounted /\ ~cameraError
  /\ Len(effects) <= MaxSwitches
  /\ facingMode' = IF facingMode = "environment" THEN "user" ELSE "environment"
  /\ effects' = Append(Cleanup(effects), NewEffect(stream))
  /\ stopped' = stopped \cup StopTracks(effects[Len(effects)].stream)
                        \cup StopTracks(stream)
  /\ UNCHANGED <<cmounted, stream, cameraError>>
  /\ UNCHANGED <<fvars, rvars, pvars, svars, hvars>>

\* camera-view.tsx:52-57: the component unmounts (onClose)
Unmount ==
  /\ cmounted
  /\ cmounted' = FALSE
  /\ effects' = Cleanup(effects)
  /\ stopped' = stopped \cup StopTracks(effects[Len(effects)].stream)
  /\ UNCHANGED <<stream, facingMode, cameraError>>
  /\ UNCHANGED <<fvars, rvars, pvars, svars, hvars>>

CameraNext ==
  \/ Mount
  \/ MediaResolved
  \/ MediaRejected
  \/ SwitchFacingMode
  \/ Unmount


(***************************************************************************)
(* Specifications                                                          *)
(***************************************************************************)
FashionSpec == FashionInit /\ [][FashionNext]_vars

ReceiptSpec == ReceiptInit /\ [][ReceiptNext]_vars

NormalizeSpec == NormalizeInit /\ [][NormalizeNext]_vars

ParseSpec == ParseInit /\ [][ParseNext]_vars

SanitizeSpec == SanitizeInit /\ [][SanitizeNext]_vars

PageSpec == PageInit /\ [][PageNext]_vars

CameraSpec == CameraInit /\ [][CameraNext]_vars


(***************************************************************************)
(*                              PROPERTIES                                 *)
(***************************************************************************)

\* ---- helpers of the properties ----
FashionDone == fpc = "done"

\* the four required fields are present in the parsed model output
Validated(j) ==
  j.got /\ j.parses /\ j.itemType /\ Len(j.outfits) > 0 /\ j.stylingTips
    /\ j.itemDescription

PlaceholderRef == <<"/placeholder-outfit.png", 0>>

ReceiptReturned == rpc \in {"done", "saved", "saveFailed"} /\ record.returned

ReceiptFailed == rpc = "failed"

\* storage was asked to remove the object behind url
RemoveRequested(url) ==
  \E i \in DOMAIN deleteLog :
    /\ deleteLog[i].url = url
    /\ deleteLog[i].outcome \in {"removed", "notFound", "storageError", "rejected"}

\* C1: a request whose form data has neither an image nor a non-empty prompt
\* is answered with an error body and status 400, and neither the analysis
\* model nor the image model is called.
C1_NoInputRejected ==
  (fpc # "start" /\ form.ok /\ ~form.imageFile /\ ~form.textPrompt)
    => /\ fpc = "done"
       /\ response = [kind |-> "error", status |-> 400]
       /\ analysisCalls = 0
       /\ imageCalls = 0

C1_Witness ==
  /\ fpc = "done" /\ form.ok /\ ~form.imageFile /\ ~form.textPrompt
  /\ response.status = 400

\* C2 (as stated): among the outfits whose image call was made, exactly those
\* whose call threw carry the placeholder.
C2_OnlyThrowingGetPlaceholder ==
  \A i \in DOMAIN outfits :
    outfits[i].call # "none"
      => ((outfits[i].generatedImage = PlaceholderRef) <=> (outfits[i].call = "threw"))

\* C2 (amended): every outfit whose image call threw, or returned without image
\* data, carries the placeholder; every outfit whose call returned image data
\* carries its own generated image; the validated result is answered with 200.
C2_PlaceholderOnFailure ==
  /\ \A i \in DOMAIN outfits :
       /\ outfits[i].call \in {"threw", "noimage"}
            => outfits[i].generatedImage = PlaceholderRef
       /\ outfits[i].call = "image"
            => outfits[i].generatedImage = <<"data:image/png;base64", i>>
  /\ (FashionDone /\ Len(outfits) > 0)
       => response = [kind |-> "result", status |-> 200]

C2_Witness ==
  /\ FashionDone
  /\ Len(outfits) = 3
  /\ outfits[1].call = "image" /\ outfits[2].call = "threw"
  /\ outfits[3].call = "image"
  /\ outfits[2].generatedImage = PlaceholderRef
  /\ response.status = 200

\* C3 (as stated): every response is a validated result or an error body with
\* status 400 or 500.
C3_ResultOrError ==
  FashionDone =>
    \/ response = [kind |-> "result", status |-> 200] /\ Validated(modelOut)
    \/ response.kind = "error" /\ response.status \in {400, 500}

\* C3 (amended): every response is a validated result (200), an error body
\* with status 400 or 500, or a rawResponse body with status 200; model output
\* that does not parse or lacks a required field is answered with the
\* rawResponse body and status 200, except that on the image path output
\* without an opening brace is answered with status 500.
C3_ResultRawOrError ==
  FashionDone =>
    /\ \/ response = [kind |-> "result", status |-> 200] /\ Validated(modelOut)
       \/ response.kind = "error" /\ response.status \in {400, 500}
       \/ response = [kind |-> "rawResponse", status |-> 200]
            /\ modelOut.got /\ ~Validated(modelOut)
    /\ (modelOut.got /\ ~Validated(modelOut))
         => IF form.imageFile /\ ~modelOut.brace
              THEN response = [kind |-> "error", status |-> 500]
              ELSE response = [kind |-> "rawResponse", status |-> 200]

C3_Witness ==
  /\ FashionDone
  /\ modelOut.got /\ modelOut.parses /\ ~modelOut.stylingTips
  /\ modelOut.itemType /\ modelOut.itemDescription /\ Len(modelOut.outfits) > 0
  /\ response.kind = "rawResponse"


\* C4: when the parsed model output has isReceipt false, processReceipt never
\* gets past the receipt check, and it fails with the not-a-receipt error
\* carrying the reason the model gave, returns no record, has called neither
\* the converter nor the tax classifier, and, when no image URL was passed in,
\* has asked storage to remove the temporary upload.
C4_NotAReceiptFails ==
  parsedData.isReceipt = "false" =>
    /\ rpc \in {"classify", "delete1", "catch", "delete2", "failed"}
    /\ ~record.returned
    /\ convertCalls = 0
    /\ taxCalls = 0
    /\ ReceiptFailed =>
         /\ error.kind = "NotAReceipt"
         /\ parsedData.reason # "" => error.reason = parsedData.reason
         /\ (imageUrl = "" /\ "tmp" \in uploads) =>
              /\ RemoveRequested("tmp")
              /\ (\E i \in DOMAIN deleteLog : deleteLog[i].outcome = "removed")
                   => "tmp" \notin blobs

C4_Witness ==
  /\ ReceiptFailed
  /\ parsedData = [isReceipt |-> "false", reason |-> "blurry photo"]
  /\ error.reason = "blurry photo"
  /\ "tmp" \in uploads
  /\ "tmp" \notin blobs

\* the error of the stage that failed, as the state determines it
StageError ==
  IF parsedData.isReceipt = "false"
    THEN [kind |-> "NotAReceipt",
          reason |-> IF parsedData.reason # "" THEN parsedData.reason
                     ELSE "Unable to identify receipt content"]
    ELSE pendingError

StageErrorKinds ==
  {"AbortError", "Unauthenticated", "UploadError", "ModelError", "InvalidFormat",
   "ParseFailed", "NotAReceipt", "ConversionFailed"}

\* C5: whatever the outcome of the compensating deletion (removed, not found,
\* storage error, malformed URL, skipped), a failed processReceipt hands the
\* caller the error of the stage that failed, never an error of the deletion.
C5_CleanupNeverMasks ==
  ReceiptFailed =>
    /\ error = StageError
    /\ error.kind \in StageErrorKinds

C5_Witness ==
  /\ ReceiptFailed
  /\ Len(deleteLog) = 2
  /\ deleteLog[1].outcome = "storageError"
  /\ deleteLog[2].outcome = "rejected"
  /\ error.kind = "NotAReceipt"

\* C6: when no image URL was passed in, the temporary upload completed and a
\* later stage failed, storage has been asked to remove the upload by the time
\* the error reaches the caller.
C6_UploadDeletedOnFailure ==
  (ReceiptFailed /\ imageUrl = "" /\ "tmp" \in uploads) => RemoveRequested("tmp")

C6_Witness ==
  /\ ReceiptFailed /\ imageUrl = "" /\ "tmp" \in uploads
  /\ error.kind = "AbortError"
  /\ RemoveRequested("tmp")

\* C7: once a rate lookup of the conversion pass has failed, processReceipt
\* is on its failure path, no record is returned, nothing is inserted, and
\* the caller receives the conversion error.
C7_ConversionAllOrNothing ==
  lookupFailed =>
    /\ rpc \in {"catch", "delete2", "failed"}
    /\ ~record.returned
    /\ table = <<>>
    /\ ReceiptFailed => error.kind = "ConversionFailed"

C7_Witness ==
  /\ ReceiptFailed /\ lookupFailed
  /\ convertCalls >= 3
  /\ receiptData.total = extracted.total
  /\ receiptData.items # extracted.items

NoConversionCase ==
  \/ ~extracted.currencyConverted
  \/ normalizeOriginalCurrency(extracted.originalCurrency).isNull

\* C9: when the model's currencyConverted flag is false or absent, or the
\* normalizer returns null, the converter is never called, and a returned
\* record has every monetary field equal to the numerically coerced extracted
\* value and currency_converted false.
C9_NoConversion ==
  (NoConversionCase /\ rpc \notin {"start", "getUser", "upload", "preModel",
                                   "model", "parse"}
     /\ parsedData.isReceipt # "false" /\ extracted # NoReceipt) =>
    /\ convertCalls = 0
    /\ record.returned =>
         /\ record.currency_converted = FALSE
         /\ \A i \in DOMAIN record.items :
              record.items[i] = ToNumber(extracted.items.v[i])
         /\ record.subtotal = OrZero(ToNumber(extracted.subtotal))
         /\ record.total = OrZero(ToNumber(extracted.total))
         /\ record.tax.defined =>
              record.tax.v[1] = OrZero(ToNumber(extracted.tax.v[1]))
         /\ record.discounts.defined =>
              \A j \in DOMAIN record.discounts.v :
                record.discounts.v[j] = ToNumber(extracted.discounts.v[j])

C9_Witness ==
  /\ ReceiptReturned
  /\ extracted.currencyConverted
  /\ extracted.originalCurrency = Str(<<"x">>)
  /\ record.currency_converted = FALSE
  /\ record.items = <<Num(100)>>
  /\ record.total = Num(300)
  /\ convertCalls = 0

\* C10: a record is returned only for a receipt whose store name, item list,
\* total and date are all present and non-empty.
C10_IncompleteReceiptRejected ==
  ReceiptReturned =>
    /\ extracted.storeName
    /\ extracted.date
    /\ extracted.items.defined /\ Len(extracted.items.v) > 0
    /\ Truthy(extracted.total)

\* C11: in every record returned, total and subtotal are non-negative numbers.
C11_TotalsNonNegative ==
  ReceiptReturned =>
    /\ record.total.t = "num" /\ record.total.n >= 0
    /\ record.subtotal.t = "num" /\ record.subtotal.n >= 0

\* C12: in every record returned, the price of every line item and the amount
\* of every discount is a number that is not NaN.
C12_AmountsNumeric ==
  ReceiptReturned =>
    /\ \A i \in DOMAIN record.items : record.items[i].t = "num"
    /\ record.discounts.defined =>
         \A j \in DOMAIN record.discounts.v : record.discounts.v[j].t = "num"

\* C13: once the tax-classification call has been made, however it went,
\* processReceipt has returned the record, no error is raised or pending and
\* no deletion has been run (a temporary upload is still in storage); when the
\* call threw or answered "null" the record's tax_category is null.
C13_TaxClassificationNonCritical ==
  taxAnswer # "none" =>
    /\ rpc \in {"done", "saved", "saveFailed"}
    /\ record.returned
    /\ error = NoError /\ pendingError = NoError
    /\ deleteLog = <<>>
    /\ "tmp" \in uploads => "tmp" \in blobs
    /\ taxAnswer \in {"throws", "null"} => record.tax_category = "null"
    /\ taxAnswer = "medical" => record.tax_category = "medical"

C13_Witness ==
  /\ rpc = "done" /\ record.returned
  /\ taxAnswer = "throws"
  /\ record.tax_category = "null"
  /\ "tmp" \in blobs
  /\ deleteLog = <<>>

C14_AtCheckpoint ==
  /\ signal = "aborted"
  /\ \/ rpc \in {"start", "preModel"}
     \/ rpc = "getUser" /\ user' = "u1" /\ finalImageUrl = ""
     \/ rpc = "model" /\ pendingError' # Err("ModelError", "")

C15_AbortFromEveryStage ==
  signal = "aborted" => (~record.returned /\ table = <<>>)

\* C16: the table holds a row only after saveReceipt inserted it, and then
\* exactly one, equal (up to user_id) to the record of a processReceipt call
\* that went through every stage without an error, the tax classification
\* and a complete conversion pass included; a call that failed has returned
\* no record and nothing is inserted.
C16_NoPartialPersist ==
  /\ rpc # "saved" => table = <<>>
  /\ table # <<>> =>
       /\ Len(table) = 1
       /\ record.returned
       /\ [table[1] EXCEPT !.user_id = record.user_id] = record
       /\ error.kind = "none" /\ pendingError.kind = "none"
       /\ taxAnswer # "none"
       /\ ~lookupFailed
       /\ parsedData.isReceipt # "false"
  /\ (pendingError.kind # "none" \/ error.kind # "none") =>
       /\ ~record.returned
       /\ table = <<>> /\ dbOps = <<>>

C16_Witness ==
  /\ rpc = "saved"
  /\ Len(table) = 1
  /\ table[1].currency_converted
  /\ table[1].total = Num(1350)
  /\ table[1].tax_category = "medical"

\* C17: a call of saveReceipt issues at most one operation on the table, an
\* insert; the row inserted carries the id of the user authenticated at that
\* time, whatever user_id the record had; with no user authenticated the call
\* fails and issues no operation.
C17_SingleInsertAsAuthUser ==
  /\ dbOps \in {<<>>, <<"insert">>}
  /\ Len(table) <= Len(dbOps)
  /\ saveUser = "unset" => dbOps = <<>>
  /\ saveUser = "none" => (rpc = "saveFailed" /\ dbOps = <<>> /\ table = <<>>)
  /\ table # <<>> => (saveUser \in {"u1", "u2"} /\ table[1].user_id = saveUser)

C17_Witness ==
  /\ rpc = "saved"
  /\ record.user_id = "u1"
  /\ saveUser = "u2"
  /\ table[1].user_id = "u2"
  /\ dbOps = <<"insert">>

\* C18 (as stated): the normalizer returns null or a member of its list of
\* ISO codes.
C18_NullOrAllowListed ==
  npc = "returned" => (normalized.isNull \/ normalized.s \in isoCodes)

\* C18 (amended): the normalizer returns null for a null or empty input, and
\* otherwise null, a member of its list of ISO codes, or the trimmed and
\* uppercased input itself when that is exactly three characters long; it
\* returns no string of another length.
C18_NullOrThreeCharacterCode ==
  npc = "returned" =>
    /\ (currencyArg.isNull \/ currencyArg.s = <<>>) => normalized.isNull
    /\ \/ normalized.isNull
       \/ normalized.s \in isoCodes
       \/ /\ Len(normalized.s) = 3
          /\ ~currencyArg.isNull
          /\ normalized.s = toUpperCase(trim(currencyArg.s))

C18_Witness ==
  /\ npc = "returned"
  /\ currencyArg = Str(<<"x", "x", "x">>)
  /\ normalized = Str(<<"X", "X", "X">>)

\* C19: normalizing a key of the symbol table returns the first candidate
\* code of that key's own entry.
C19_SymbolGivesOwnFirstCandidate ==
  npc = "returned" =>
    \A k \in 1..Len(symbolMap) :
      currencyArg = Str(symbolMap[k].symbol)
        => normalized = Str(symbolMap[k].codes[1])

\* C20: for a model output that is one JSON object, alone, in a code fence or
\* with prose around it, the sanitize-and-parse step yields that object.
C20_WrappedParsesLikeAlone ==
  ppc = "parsed" =>
    \A o \in JsonObjects, w \in Wrappers :
      text = Wrap(w, o) => parseResult = [status |-> "ok", obj |-> o]

\* ---- C21 ----
\* the span of a text from its first opening brace to its last closing brace
BraceSpan(t) == SubSeq(t, FirstOf(t, "{"), LastOf(t, "}"))

\* C21: on the image path and on the text-prompt path alike, the sanitized
\* text is the span of the raw text from its first opening brace to its last
\* closing brace with the fences removed (white space apart), so that an
\* object holding nested objects is still that object after the sanitizer.
C21_SpanFirstToLastBrace ==
  (spc = "sanitized" /\ Positions(rawText, "{") # {})
    => /\ StripWs(sanitizedText) = StripWs(RemoveFences(BraceSpan(rawText)))
       /\ IsObject(StripWs(sanitizedText))


\* ---- C22 ----
\* C22: once the handler has entered the image stage, every outfit of the
\* result it answers carries a generatedImage, a generated one or the
\* placeholder, whatever failed while an outfit was handled.
C22_EveryOutfitHasImage ==
  (FashionDone /\ response.kind = "result" /\ loopIdx >= 1)
    => \A i \in DOMAIN outfits : outfits[i].generatedImage # NoImage

\* ---- C23 ----
\* the image stage has asked for the images of the outfits before position k,
\* one request each, and for no other
C23_RequestedBefore(k) ==
  /\ imageCalls = k - 1
  /\ \A i \in DOMAIN outfits : (outfits[i].call # "none") <=> (i < k)

\* C23: past 60% of the timeout at the gate, the validated result is answered
\* with no image request made and no generatedImage on any outfit; otherwise
\* the image stage makes exactly one image request per outfit, in the order of
\* the outfits, one after the other.
C23_GateThenOneRequestPerOutfit ==
  /\ (FashionDone /\ response.kind = "result" /\ OverBudget(elapsed))
       => /\ imageCalls = 0
          /\ \A i \in DOMAIN outfits : outfits[i].generatedImage = NoImage
  /\ fpc = "loop" => (~OverBudget(elapsed) /\ C23_RequestedBefore(loopIdx))
  /\ (FashionDone /\ response.kind = "result" /\ ~OverBudget(elapsed))
       => C23_RequestedBefore(Len(outfits) + 1)


\* ---- C24 ----
\* the extraction response had no braces or did not parse
C24_Unparseable == pendingError.kind \in {"InvalidFormat", "ParseFailed"}

\* C24: no model call is retried: processReceipt calls the extraction model at
\* most once and the tax-classification model at most once, and after an
\* extraction response without braces or one that does not parse it makes no
\* further model call, returns no record and fails with that error.
C24_NoModelCallRetried ==
  /\ extractCalls <= 1
  /\ taxCalls <= 1
  /\ C24_Unparseable
       => /\ rpc \in {"catch", "delete2", "failed"}
          /\ extractCalls = 1 /\ taxCalls = 0
          /\ ~record.returned
          /\ rpc = "failed" => error = pendingError

C24_Witness ==
  /\ rpc = "failed"
  /\ error.kind = "ParseFailed"
  /\ extractCalls = 1 /\ taxCalls = 0
  /\ ~record.returned


\* ---- C25 ----
\* C25: called with a non-empty image URL, processReceipt uploads nothing and
\* invokes no deletion, however it ends, and the record it returns carries
\* that URL; when it uploaded the image itself and returns a record, the
\* upload is still stored, no deletion was invoked and the record carries the
\* URL of the upload.
C25_PreexistingUrlUntouched ==
  /\ imageUrl # ""
       => /\ uploads = {} /\ blobs = {} /\ deleteLog = <<>>
          /\ ReceiptReturned => record.image_url = imageUrl
  /\ (imageUrl = "" /\ uploads # {} /\ ReceiptReturned)
       => /\ uploads = {"tmp"} /\ "tmp" \in blobs /\ deleteLog = <<>>
          /\ record.image_url = "tmp"

C25_Witness ==
  /\ imageUrl = "pre"
  /\ ReceiptFailed
  /\ error.kind = "NotAReceipt"
  /\ extractCalls = 1
  /\ deleteLog = <<>> /\ uploads = {}

\* ---- C26 ----
\* the number of amounts a conversion pass converts, one call each
C26_AmountsToConvert == ConvSlots(extracted)

\* C26: a returned record has currency_converted set exactly when the
\* conversion pass ran to completion on its amounts, and then its
\* original_currency is the normalized code, which is not null; no amount is
\* converted more than once.
C26_ConvertedIffPassCompleted ==
  /\ convertCalls <= C26_AmountsToConvert
  /\ ReceiptReturned
       => /\ record.currency_converted
               <=> (convertCalls = C26_AmountsToConvert /\ ~lookupFailed)
          /\ ~record.currency_converted => convertCalls = 0
          /\ record.currency_converted
               => /\ ~record.original_currency.isNull
                  /\ record.original_currency =
                       normalizeOriginalCurrency(extracted.originalCurrency)

C26_Witness ==
  /\ ReceiptReturned
  /\ record.currency_converted
  /\ convertCalls >= 3
  /\ record.original_currency = Str(<<"U", "S", "D">>)

\* ---- C27 ----
\* C27: in one execution of processReceipt the deletion of the temporary
\* upload is attempted at most once, on the not-a-receipt path as well.
C27_DeletionAttemptedAtMostOnce ==
  Cardinality({i \in DOMAIN deleteLog : deleteLog[i].url \in uploads}) <= 1

\* ---- C28 ----
\* C28: when processReceipt has finished, with a record or with an error, the
\* abort listener it registered on the signal is no longer registered.
C28_ListenerRemovedOnExit ==
  (ReceiptReturned \/ ReceiptFailed) => ~listener


\* ---- C29 ----
\* C29: when handleSubmit has finished, whichever way, the interval it
\* started has been cleared, isLoading is false and the loading stage stays
\* as the submission left it.
C29_TimerClearedOnEveryExit ==
  hpc = "finished"
    => /\ loadingTimer # "active"
       /\ ~isLoading
       /\ loadingStage = ""

\* ---- C30 ----
\* the streams obtained from getUserMedia so far
C30_Acquired == {i \in DOMAIN effects : effects[i].media = "resolved"}

\* C30: every stream obtained by a run of the effect that a switch of the
\* facing mode has superseded is stopped, and once the component is
\* unmounted and no getUserMedia call is pending, every stream obtained is
\* stopped.
C30_EveryStreamStopped ==
  /\ \A i \in C30_Acquired : i < Len(effects) => i \in stopped
  /\ (~cmounted /\ \A i \in DOMAIN effects : effects[i].media # "pending")
       => C30_Acquired \subseteq stopped


=============================================================================
